---- MODULE Spec2Model ----
(***************************************************************************)
(* AudioTranslate Pro (voice-tools): the three processing managers of the  *)
(* page -- TranscriptionManager, TranslationManager, BatchProcessingManager *)
(* -- with the file inputs and buttons they share with FileUploadManager.  *)
(*                                                                         *)
(* Scheduling.  The page is single threaded: every DOM event handler and   *)
(* every setInterval callback runs to completion.  A callback that calls   *)
(* resolve() is followed, before any other event or timer, by the          *)
(* microtask that resumes the async start function after its await; the    *)
(* callback and the resumed tail (results, notification, finally) are      *)
(* therefore one atomic step, the action Tick.                             *)
(*                                                                         *)
(* Decomposition.  The three managers are separate objects that share no   *)
(* field, input or button.  A behaviour drives one manager, chosen in Init *)
(* (focus); the state of the other two stays as constructed.               *)
(*                                                                         *)
(* Failure.  The promises of the simulate functions are built with resolve *)
(* alone and every element the try blocks touch exists on the page that    *)
(* main.js builds, so no run can reach the catch branch of a start         *)
(* function; the model has no step for it.                                 *)
(*                                                                         *)
(* Files.  A file is its MIME type and its size in bytes; file names are   *)
(* left out of the texts the handlers write.  The text below a single-file *)
(* input (fileInfo) is one string, the list below the batch input is a     *)
(* sequence of strings, one per list item.                                 *)
(*                                                                         *)
(* Numbers.  Math.random() * k is a real in [0, k); it is modelled by the  *)
(* integers 0 .. k-1.  The batch progress is a fraction with denominator   *)
(* filesProcessed: progress[m] holds the value multiplied by               *)
(* filesProcessed[m] (which is 1 for the two single-file managers).        *)
(***************************************************************************)
EXTENDS Integers, Sequences, FiniteSets, Bags, TLC

VARIABLES
    focus,              \* the manager this behaviour drives
    files,              \* fileInput.files of each manager's file input
    fileInfo,           \* what the upload handler last wrote below the input
    btnDisabled,        \* the disabled attribute of each manager's start button
    selectedLanguages,  \* TranslationManager.selectedLanguages
    isProcessing,       \* this.isProcessing of each manager
    awaiting,           \* start calls of the manager suspended at their await
    timers,             \* live setInterval timers of the manager
    progress,           \* closure variable progress (times filesProcessed)
    rawProgress,        \* progress as computed by the last callback, before the clamp
    filesProcessed,     \* closure constant filesProcessed (1 for single-file managers)
    currentFile,        \* closure variable currentFile of the batch run
    fileProgress,       \* fileProgress drawn by the last batch callback
    resolves,           \* calls of resolve() made by the manager's current run
    resultsShown,       \* the manager's results container has been filled
    translationOutputs, \* the download buttons inside #translation-outputs
    runLanguages,       \* history: the languages selected when the translation
                        \* run in progress was started ({} when none is)
    downloadTimers,     \* file names of the pending setTimeout callbacks of the
                        \* download handlers, in the order they were set
    events,             \* window.eventBus.events: its own properties
    invoked,            \* the callback calls made by the last call of the event
                        \* bus, and whether that call threw
    last                \* the handler that ran last: its path and its notifications

vars == <<focus, files, fileInfo, btnDisabled, selectedLanguages, isProcessing, awaiting,
          timers, progress, rawProgress, filesProcessed, currentFile,
          fileProgress, resolves, resultsShown, translationOutputs,
          runLanguages, downloadTimers, events, invoked, last>>

\* the state of the event bus
busVars == <<events, invoked>>

\* everything a single run owns: what a rejected start call must leave alone
runState == <<isProcessing, awaiting, timers, progress, rawProgress,
              filesProcessed, currentFile, fileProgress, resolves>>

----------------------------------------------------------------------------
\* Program constants

Full == 100
TranscriptionStep == 15
TranslationStep == 10
BatchStep == 20
CompletionThreshold == 95
MaxBatchFiles == 10

\* 1024 bytes, and the three size ceilings of FileUploadManager
K == 1024
MB == K * K
SingleCeiling == 100 * K * K
BatchFileCeiling == 50 * K * K
BatchTotalCeiling == 500 * K * K

\* Bounds of the model

MaxFiles == 11
MaxDownloadTimers == 2
MaxListeners == 3

Managers == {"transcription", "translation", "batch"}
SingleManagers == {"transcription", "translation"}
Languages == {"de", "fr"}

Min(a, b) == IF a <= b THEN a ELSE b

\* The increments one callback can draw: Math.random() * k, as 0 .. k-1
Deltas(m) ==
    CASE m = "transcription" -> 0 .. (TranscriptionStep - 1)
      [] m = "translation"   -> 0 .. (TranslationStep - 1)
      [] m = "batch"         -> 0 .. (BatchStep - 1)

Note(kind, message) == [kind |-> kind, message |-> message]

NoSelectionMessage(m) ==
    IF m = "batch" THEN "Please select files to process."
                   ELSE "Please select an audio file first."

CompletedMessage(m) ==
    CASE m = "transcription" -> "Transcription completed successfully!"
      [] m = "translation"   -> "Translation completed successfully!"
      [] m = "batch"         -> "Batch processing completed!"

----------------------------------------------------------------------------
\* AudioTranslateUtils

\* const sizes = ['Bytes', 'KB', 'MB', 'GB']
Sizes == <<"Bytes", "KB", "MB", "GB">>

\* Math.floor(Math.log(bytes) / Math.log(k)) for 1 <= bytes < 2^31
UnitIndex(bytes) ==
    IF bytes < K THEN 0
    ELSE IF bytes < K * K THEN 1
    ELSE IF bytes < K * K * K THEN 2
    ELSE 3

\* Math.pow(k, i)
Pow(i) == IF i = 0 THEN 1 ELSE IF i = 1 THEN K ELSE IF i = 2 THEN K * K ELSE K * K * K

\* (bytes / Math.pow(k, i)).toFixed(2), as a number of hundredths: the
\* quotient rounded to the nearest hundredth, a tie rounded up.  The
\* remainder is scaled in two steps so that no product leaves 32 bits.
Hundredths(bytes, i) ==
    LET q     == Pow(i)
        whole == bytes \div q
        rem   == bytes % q
        part  == IF i <= 2
                   THEN ((rem * 200) + q) \div (2 * q)
                   ELSE (((rem \div K) * 200) + (((rem % K) * 200) \div K) + (K * K))
                            \div (2 * K * K)
    IN  (whole * 100) + part

ParseFloatKeepsZeros(h) ==
    ToString(h \div 100) \o "." \o ToString((h % 100) \div 10) \o ToString(h % 10)

\* parseFloat(x.toFixed(2)) + ' ': the number is written back without the
\* trailing zeros of its two decimals
ParseFloat(h) ==
    IF h % 100 = 0 THEN ToString(h \div 100)
    ELSE IF h % 10 = 0 THEN ToString(h \div 100) \o "." \o ToString((h % 100) \div 10)
    ELSE ToString(h \div 100) \o "." \o ToString((h % 100) \div 10) \o ToString(h % 10)

\* static formatFileSize(bytes)
FormatFileSize(bytes) ==
    IF bytes = 0 THEN "0 Bytes"
    ELSE LET i == UnitIndex(bytes)
         IN  ParseFloat(Hundredths(bytes, i)) \o " " \o Sizes[i + 1]

\* array.join(', ')
RECURSIVE Join(_)
Join(texts) ==
    IF texts = <<>> THEN ""
    ELSE IF Len(texts) = 1 THEN texts[1]
    ELSE texts[1] \o ", " \o Join(Tail(texts))

\* `File type not supported. Allowed types: ${allowedTypes.join(', ')}`
TypeError(allowedTypes) ==
    "File type not supported. Allowed types: " \o Join(allowedTypes)

\* `File too large. Maximum size: ${this.formatFileSize(maxSize)}`
SizeError(maxSize) ==
    "File too large. Maximum size: " \o FormatFileSize(maxSize)

\* allowedTypes.includes(file.type)
Includes(list, x) == \E i \in 1 .. Len(list) : list[i] = x

SizeExceedsOrEquals(size, maxSize) == size >= maxSize

\* file.size > maxSize
SizeExceeds(size, maxSize) == size > maxSize

ValidateFileFirstErrorOnly(file, allowedTypes, maxSize) ==
    LET errors == IF ~Includes(allowedTypes, file.type) THEN <<TypeError(allowedTypes)>>
                  ELSE IF SizeExceeds(file.size, maxSize) THEN <<SizeError(maxSize)>>
                  ELSE <<>>
    IN  [isValid |-> Len(errors) = 0, errors |-> errors]

\* static validateFile(file, allowedTypes, maxSize): two independent ifs
\* push onto a new errors array, the type error first
ValidateFile(file, allowedTypes, maxSize) ==
    LET typeErrors == IF ~Includes(allowedTypes, file.type)
                        THEN <<TypeError(allowedTypes)>> ELSE <<>>
        sizeErrors == IF SizeExceeds(file.size, maxSize)
                        THEN <<SizeError(maxSize)>> ELSE <<>>
        errors     == typeErrors \o sizeErrors
    IN  [isValid |-> Len(errors) = 0, errors |-> errors]

----------------------------------------------------------------------------
Init ==
    /\ focus \in Managers
    /\ files = [m \in Managers |-> <<>>]
    /\ fileInfo = [m \in Managers |-> IF m = "batch" THEN <<>> ELSE ""]
    /\ btnDisabled = [m \in Managers |-> TRUE]
    /\ selectedLanguages = {}
    /\ isProcessing = [m \in Managers |-> FALSE]
    /\ awaiting = [m \in Managers |-> 0]
    /\ timers = [m \in Managers |-> 0]
    /\ progress = [m \in Managers |-> 0]
    /\ rawProgress = [m \in Managers |-> 0]
    /\ filesProcessed = [m \in Managers |-> 1]
    /\ currentFile = 0
    /\ fileProgress = 0
    /\ resolves = [m \in Managers |-> 0]
    /\ resultsShown = [m \in Managers |-> FALSE]
    /\ translationOutputs = EmptyBag
    /\ runLanguages = {}
    /\ downloadTimers = <<>>
    /\ events = <<>>
    /\ invoked = [calls |-> <<>>, threw |-> FALSE]
    /\ last = [op |-> "load", path |-> "none", notes |-> <<>>]

----------------------------------------------------------------------------
\* FileUploadManager: a change of a manager's file input

\* ['audio/mpeg', 'audio/wav', 'audio/m4a', 'audio/ogg']
AllowedTypes == <<"audio/mpeg", "audio/wav", "audio/m4a", "audio/ogg">>

File(type, size) == [type |-> type, size |-> size]

\* handleFileSelection: the first file is validated against the 100MB
\* ceiling; an empty selection is ignored.
SelectFile(m, sel) ==
    /\ focus = m
    /\ m \in SingleManagers
    /\ files' = [files EXCEPT ![m] = sel]
    /\ IF Len(sel) = 0
         THEN /\ UNCHANGED <<btnDisabled, fileInfo>>
              /\ last' = [op |-> "select", path |-> "empty", notes |-> <<>>]
         ELSE LET validation == ValidateFile(sel[1], AllowedTypes, SingleCeiling)
              IN  IF validation.isValid
                    THEN /\ fileInfo' = [fileInfo EXCEPT ![m] =
                                "File selected: (" \o FormatFileSize(sel[1].size) \o ")"]
                         /\ btnDisabled' = [btnDisabled EXCEPT ![m] = FALSE]
                         /\ last' = [op |-> "select", path |-> "valid",
                                     notes |-> <<Note("success",
                                         "File uploaded successfully!")>>]
                    ELSE /\ fileInfo' = [fileInfo EXCEPT ![m] =
                                "Error: " \o Join(validation.errors)]
                         /\ btnDisabled' = [btnDisabled EXCEPT ![m] = TRUE]
                         /\ last' = [op |-> "select", path |-> "invalid",
                                     notes |-> <<Note("error",
                                         Join(validation.errors))>>]
    /\ UNCHANGED <<focus, selectedLanguages, runState, resultsShown,
                   translationOutputs, runLanguages, downloadTimers>>
    /\ UNCHANGED busVars

\* the list item written for one file of a batch selection
BatchItem(file) ==
    LET validation == ValidateFile(file, AllowedTypes, BatchFileCeiling)
    IN  IF validation.isValid
          THEN "(" \o FormatFileSize(file.size) \o ")"
          ELSE " - " \o Join(validation.errors)

\* the for loop of handleBatchFileSelection: totalSize += file.size
RECURSIVE TotalSize(_)
TotalSize(sel) ==
    IF sel = <<>> THEN 0 ELSE sel[1].size + TotalSize(Tail(sel))

\* the for loop of handleBatchFileSelection: hasErrors after the loop
AnyInvalid(sel) ==
    \E i \in 1 .. Len(sel) :
        ~ValidateFile(sel[i], AllowedTypes, BatchFileCeiling).isValid

TotalSizeLine == "Total size exceeds 500MB limit"
CountLine == "Maximum 10 files allowed"

TotalTooLargeOrEqual(total) == total >= BatchTotalCeiling

\* if (totalSize > 500 * 1024 * 1024)
TotalTooLarge(total) == total > BatchTotalCeiling

TooManyFilesOrEqual(n) == n >= MaxBatchFiles

\* if (files.length > 10)
TooManyFiles(n) == n > MaxBatchFiles

\* handleBatchFileSelection: every file is validated against the 50MB
\* ceiling, then the total size and the file count are checked.
SelectBatchFiles(sel) ==
    /\ focus = "batch"
    /\ files' = [files EXCEPT !["batch"] = sel]
    /\ IF Len(sel) = 0
         THEN /\ UNCHANGED <<btnDisabled, fileInfo>>
              /\ last' = [op |-> "select", path |-> "empty", notes |-> <<>>]
         ELSE LET tooLarge  == TotalTooLarge(TotalSize(sel))
                  tooMany   == TooManyFiles(Len(sel))
                  hasErrors == AnyInvalid(sel) \/ tooLarge \/ tooMany
              IN  /\ fileInfo' = [fileInfo EXCEPT !["batch"] =
                         [i \in 1 .. Len(sel) |-> BatchItem(sel[i])]
                             \o (IF tooLarge THEN <<TotalSizeLine>> ELSE <<>>)
                             \o (IF tooMany THEN <<CountLine>> ELSE <<>>)]
                  /\ btnDisabled' = [btnDisabled EXCEPT !["batch"] = hasErrors]
                  /\ last' = [op |-> "select",
                              path |-> IF hasErrors THEN "invalid" ELSE "valid",
                              notes |-> IF hasErrors
                                  THEN <<>>
                                  ELSE <<Note("success", ToString(Len(sel))
                                            \o " files uploaded successfully!")>>]
    /\ UNCHANGED <<focus, selectedLanguages, runState, resultsShown,
                   translationOutputs, runLanguages, downloadTimers>>
    /\ UNCHANGED busVars

----------------------------------------------------------------------------
\* TranslationManager.setupLanguageSelection: a click on a language option

ToggleAddsOnly(selected, lang) == selected \cup {lang}

\* if (this.selectedLanguages.has(lang)) delete(lang) else add(lang)
Toggle(selected, lang) ==
    IF lang \in selected THEN selected \ {lang} ELSE selected \cup {lang}

UpdateTranslateButtonKeeps(selected) == btnDisabled["translation"]

\* updateTranslateButton: translateBtn.disabled = this.selectedLanguages.size === 0
UpdateTranslateButton(selected) == selected = {}

ToggleLanguage(lang) ==
    /\ focus = "translation"
    /\ selectedLanguages' = Toggle(selectedLanguages, lang)
    /\ btnDisabled' = [btnDisabled EXCEPT !["translation"] =
                           UpdateTranslateButton(selectedLanguages')]
    /\ last' = [op |-> "toggle", path |-> lang, notes |-> <<>>]
    /\ UNCHANGED <<focus, files, fileInfo, runState, resultsShown, translationOutputs,
                   runLanguages, downloadTimers>>
    /\ UNCHANGED busVars

\* clearSelection(): a public method of the manager that no handler of the
\* page calls; the selection and button it leaves are those a user reaches
\* by toggling every selected language off.
ClearSelection ==
    /\ focus = "translation"
    /\ selectedLanguages' = {}
    /\ btnDisabled' = [btnDisabled EXCEPT !["translation"] =
                           UpdateTranslateButton(selectedLanguages')]
    /\ last' = [op |-> "clear", path |-> "none", notes |-> <<>>]
    /\ UNCHANGED <<focus, files, fileInfo, runState, resultsShown, translationOutputs,
                   runLanguages, downloadTimers>>
    /\ UNCHANGED busVars

\* getLanguageData(langCode): the name of the language, as the data-language
\* attribute carries it (name.toLowerCase())
GetLanguageDataUnknown(langCode) == [name |-> "unknown"]

GetLanguageData(langCode) ==
    CASE langCode = "de" -> [name |-> "german"]
      [] langCode = "fr" -> [name |-> "french"]
      [] langCode = "ru" -> [name |-> "russian"]
      [] langCode = "zh" -> [name |-> "chinese"]
      [] langCode = "ja" -> [name |-> "japanese"]
      [] langCode = "hi" -> [name |-> "hindi"]
      [] langCode = "ar" -> [name |-> "arabic"]
      [] langCode = "it" -> [name |-> "italian"]
      [] OTHER           -> [name |-> "unknown"]

\* createTranslationOutput(languageData): one audio player with three
\* download buttons, each a (data-language, data-format) pair
CreateTranslationOutput(languageData) ==
    SetToBag({<<languageData.name, "mp3">>}) (+)
    SetToBag({<<languageData.name, "wav">>}) (+)
    SetToBag({<<languageData.name, "srt">>})

\* showTranslationResults: translationOutputs.innerHTML = '' and then one
\* createTranslationOutput appended for every selected language
RECURSIVE ShowTranslationResults(_)
ShowTranslationResults(selected) ==
    IF selected = {} THEN EmptyBag
    ELSE LET lang == CHOOSE l \in selected : TRUE
         IN  CreateTranslationOutput(GetLanguageData(lang))
                 (+) ShowTranslationResults(selected \ {lang})

\* the download buttons of the transcription results container, as the page
\* template of main.js lays them out
TranscriptionDownloads ==
    SetToBag({"txt"}) (+) SetToBag({"docx"}) (+) SetToBag({"srt"}) (+) SetToBag({"vtt"})

----------------------------------------------------------------------------
\* startTranscription / startTranslation / processBatch: a click on the
\* manager's (enabled) start button

StartGuardOff(m) == FALSE

\* if (this.isProcessing) return;
StartGuard(m) == isProcessing[m]

NoFileUnchecked(m) == FALSE

\* if (!fileInput.files.length)
NoFile(m) == Len(files[m]) = 0

Start(m) ==
    /\ focus = m
    /\ ~btnDisabled[m]
    /\ IF StartGuard(m)
         THEN /\ last' = [op |-> "start", path |-> "rejected", notes |-> <<>>]
              /\ UNCHANGED <<btnDisabled, runState, runLanguages>>
         ELSE IF NoFile(m)
         THEN /\ last' = [op |-> "start", path |-> "nofile",
                          notes |-> <<Note("error", NoSelectionMessage(m))>>]
              /\ UNCHANGED <<btnDisabled, runState, runLanguages>>
         ELSE IF m = "translation" /\ selectedLanguages = {}
         THEN /\ last' = [op |-> "start", path |-> "nolanguage",
                          notes |-> <<Note("error",
                              "Please select at least one target language.")>>]
              /\ UNCHANGED <<btnDisabled, runState, runLanguages>>
         ELSE /\ isProcessing' = [isProcessing EXCEPT ![m] = TRUE]
              /\ btnDisabled' = [btnDisabled EXCEPT ![m] = TRUE]
              /\ awaiting' = [awaiting EXCEPT ![m] = @ + 1]
              /\ timers' = [timers EXCEPT ![m] = @ + 1]
              /\ progress' = [progress EXCEPT ![m] = 0]
              /\ rawProgress' = [rawProgress EXCEPT ![m] = 0]
              /\ filesProcessed' = [filesProcessed EXCEPT ![m] =
                     IF m = "batch" THEN Min(Len(files[m]), MaxBatchFiles) ELSE 1]
              /\ currentFile' = IF m = "batch" THEN 0 ELSE currentFile
              /\ fileProgress' = IF m = "batch" THEN 0 ELSE fileProgress
              /\ resolves' = [resolves EXCEPT ![m] = 0]
              /\ runLanguages' = IF m = "translation" THEN selectedLanguages
                                                      ELSE runLanguages
              /\ last' = [op |-> "start", path |-> "started", notes |-> <<>>]
    /\ UNCHANGED <<focus, files, fileInfo, selectedLanguages, resultsShown,
                   translationOutputs, downloadTimers>>
    /\ UNCHANGED busVars

----------------------------------------------------------------------------
\* The setInterval callbacks of simulateTranscriptionProcess,
\* simulateTranslationProcess and simulateBatchProcess

BatchProgressNegated(cf, fp) == (cf * Full) - fp

BatchProgressUnscaled(cf, fp) == (cf * Full) + (fp * Full)

BatchProgressDoubled(cf, fp) == (cf * Full) + (fp * 2)

\* (currentFile * progressPerFile) + (fileProgress * progressPerFile / 100),
\* times filesProcessed: progressPerFile is 100 / filesProcessed
BatchProgress(cf, fp) == (cf * Full) + fp

\* if (progress >= 100)
Reached(total, n) == total >= Full * n

ReportedUnclamped(total, n) == total

\* progress = 100 inside the if: the value the progress bar shows
Reported(total, n) == IF Reached(total, n) THEN Full * n ELSE total

ClearIntervalMissing(t) == t

\* clearInterval(interval)
ClearInterval(t) == t - 1

FinallyLeavesLocked(m) == TRUE

\* finally { this.isProcessing = false; ... }
FinallyIsProcessing(m) == FALSE

\* "Move to next file if current file is done": fileProgress >= 95
CurrentFileDone(fp) == fp >= CompletionThreshold

NextFileUnguarded(cf, fp, n) == IF cf < n - 1 THEN cf + 1 ELSE cf

\* if (fileProgress >= 95 && currentFile < filesProcessed - 1) currentFile++
NextFile(cf, fp, n) ==
    IF CurrentFileDone(fp) /\ cf < n - 1 THEN cf + 1 ELSE cf

ResumesOnEveryTick(done, resolved) == TRUE

\* await simulate...(): the start function resumes after its await when the
\* promise settles, that is on the first call of resolve()
Resumes(done, resolved) == done /\ resolved = 0

Tick(m) ==
    /\ focus = m
    /\ timers[m] > 0
    /\ \E d \in Deltas(m) :
         LET n     == filesProcessed[m]
             total == IF m = "batch" THEN BatchProgress(currentFile, d)
                                     ELSE progress[m] + d
             done  == Reached(total, n)
             tail  == Resumes(done, resolves[m])
         IN  /\ rawProgress' = [rawProgress EXCEPT ![m] = total]
             /\ progress' = [progress EXCEPT ![m] = Reported(total, n)]
             /\ timers' = [timers EXCEPT ![m] = IF done THEN ClearInterval(@) ELSE @]
             /\ resolves' = [resolves EXCEPT ![m] = IF done THEN @ + 1 ELSE @]
             /\ currentFile' = IF m = "batch" THEN NextFile(currentFile, d, n)
                                              ELSE currentFile
             /\ fileProgress' = IF m = "batch" THEN d ELSE fileProgress
             \* after the await: results, success notification, finally
             /\ resultsShown' = [resultsShown EXCEPT ![m] = IF tail THEN TRUE ELSE @]
             /\ translationOutputs' =
                    IF tail /\ m = "translation"
                      THEN ShowTranslationResults(selectedLanguages)
                      ELSE translationOutputs
             /\ runLanguages' = IF tail /\ m = "translation" THEN {} ELSE runLanguages
             /\ isProcessing' = [isProcessing EXCEPT ![m] =
                    IF tail THEN FinallyIsProcessing(m) ELSE @]
             /\ btnDisabled' = [btnDisabled EXCEPT ![m] = IF tail THEN FALSE ELSE @]
             /\ awaiting' = [awaiting EXCEPT ![m] = IF tail THEN @ - 1 ELSE @]
             /\ last' = IF tail
                  THEN [op |-> "tick", path |-> "completed",
                        notes |-> <<Note("success", CompletedMessage(m))>>]
                  ELSE [op |-> "tick", path |-> "progress", notes |-> <<>>]
    /\ UNCHANGED <<focus, files, fileInfo, selectedLanguages, filesProcessed,
                   downloadTimers>>
    /\ UNCHANGED busVars

----------------------------------------------------------------------------
\* Download buttons.  The three managers each add a click listener to the
\* document; a click on a download button runs all three, in the order the
\* managers were constructed (transcription, translation, batch).

\* a download button: the results area it is in, the data-language of the
\* audio player around it ("" outside a player) and its data-format
Button(area, language, format) ==
    [area |-> area, language |-> language, format |-> format]

\* the download buttons of the results that are shown
DownloadButtons ==
    (IF resultsShown["transcription"]
       THEN {Button("transcription", "", f) : f \in BagToSet(TranscriptionDownloads)}
       ELSE {})
    \cup (IF resultsShown["translation"]
            THEN {Button("translation", a[1], a[2]) : a \in BagToSet(translationOutputs)}
            ELSE {})
    \cup (IF resultsShown["batch"]
            THEN {Button("batch", "", f) : f \in {"zip", "report"}}
            ELSE {})

\* TranscriptionManager.bindEvents: if (e.target.closest('.download-btn'))
\* handleDownload(format)
TranscriptionListener(button) ==
    <<"transcription." \o button.format>>

\* TranslationManager.bindEvents: the button is inside an .audio-player;
\* handleTranslationDownload(language, format)
TranslationListener(button) ==
    IF button.area = "translation"
      THEN <<"translation_" \o button.language \o "." \o button.format>>
      ELSE <<>>

\* BatchProcessingManager.bindEvents: the button is inside #batch-results;
\* handleBatchDownload(format)
BatchListener(button) ==
    IF button.area = "batch" THEN <<"batch_results." \o button.format>> ELSE <<>>

\* the first notification of a download handler
Announce(filename) ==
    Note("info", IF filename = "batch_results.zip" \/ filename = "batch_results.report"
                   THEN "Preparing " \o filename \o " for download..."
                   ELSE "Downloading " \o filename \o "...")

\* a click on a download button: every listener whose test passes announces
\* its file and sets a timer for the success notification
ClickDownload(button) ==
    /\ button \in DownloadButtons
    /\ LET filenames == TranscriptionListener(button) \o TranslationListener(button)
                             \o BatchListener(button)
       IN  /\ Len(downloadTimers) + Len(filenames) <= MaxDownloadTimers
           /\ downloadTimers' = downloadTimers \o filenames
           /\ last' = [op |-> "download", path |-> button.area,
                       notes |-> [i \in 1 .. Len(filenames) |-> Announce(filenames[i])]]
    /\ UNCHANGED <<focus, files, fileInfo, btnDisabled, selectedLanguages, runState,
                   resultsShown, translationOutputs, runLanguages>>
    /\ UNCHANGED busVars

\* the setTimeout callback of a download handler
DownloadTimeout ==
    /\ Len(downloadTimers) > 0
    /\ downloadTimers' = Tail(downloadTimers)
    /\ last' = [op |-> "downloaded", path |-> "none",
                notes |-> <<Note("success",
                              Head(downloadTimers) \o " downloaded successfully!")>>]
    /\ UNCHANGED <<focus, files, fileInfo, btnDisabled, selectedLanguages, runState,
                   resultsShown, translationOutputs, runLanguages>>
    /\ UNCHANGED busVars

----------------------------------------------------------------------------
\* EventBus.  this.events is a plain object: a lookup of a name that is not
\* an own property falls through to Object.prototype, where names such as
\* 'constructor' are defined.  The callbacks are opaque: they return without
\* throwing and do not call the bus.

EventNames == {"ready", "progress", "constructor"}
InheritedNames == {"constructor"}
Callbacks == {"f", "g"}
Data == {"x", "y"}

\* this.events[event] is truthy
Truthy(event) == event \in DOMAIN events \/ event \in InheritedNames

\* this.events[event] is an array: only the own properties are
IsArray(event) == event \in DOMAIN events

\* the object after this.events[event] = list
Assign(event, list) ==
    [e \in DOMAIN events \cup {event} |-> IF e = event THEN list ELSE events[e]]

FilterFirstOnly(list, callback) ==
    IF \E i \in 1 .. Len(list) : list[i] = callback
      THEN LET i == CHOOSE k \in 1 .. Len(list) :
                        list[k] = callback /\ \A j \in 1 .. (k - 1) : list[j] # callback
           IN  SubSeq(list, 1, i - 1) \o SubSeq(list, i + 1, Len(list))
      ELSE list

\* list.filter(cb => cb !== callback)
RECURSIVE Filter(_, _)
Filter(list, callback) ==
    IF list = <<>> THEN <<>>
    ELSE IF Head(list) = callback THEN Filter(Tail(list), callback)
    ELSE <<Head(list)>> \o Filter(Tail(list), callback)

\* on(event, callback)
On(event, callback) ==
    /\ IF ~Truthy(event)
         THEN /\ events' = Assign(event, <<callback>>)
              /\ invoked' = [calls |-> <<>>, threw |-> FALSE]
         ELSE IF IsArray(event)
         THEN /\ Len(events[event]) < MaxListeners
              /\ events' = Assign(event, Append(events[event], callback))
              /\ invoked' = [calls |-> <<>>, threw |-> FALSE]
         \* an inherited property has no push: TypeError
         ELSE /\ events' = events
              /\ invoked' = [calls |-> <<>>, threw |-> TRUE]
    /\ last' = [op |-> "on", path |-> event, notes |-> <<>>]
    /\ UNCHANGED <<focus, files, fileInfo, btnDisabled, selectedLanguages, runState,
                   resultsShown, translationOutputs, runLanguages, downloadTimers>>

\* off(event, callback)
Off(event, callback) ==
    /\ IF ~Truthy(event)
         THEN /\ events' = events
              /\ invoked' = [calls |-> <<>>, threw |-> FALSE]
         ELSE IF IsArray(event)
         THEN /\ events' = Assign(event, Filter(events[event], callback))
              /\ invoked' = [calls |-> <<>>, threw |-> FALSE]
         \* an inherited property has no filter: TypeError
         ELSE /\ events' = events
              /\ invoked' = [calls |-> <<>>, threw |-> TRUE]
    /\ last' = [op |-> "off", path |-> event, notes |-> <<>>]
    /\ UNCHANGED <<focus, files, fileInfo, btnDisabled, selectedLanguages, runState,
                   resultsShown, translationOutputs, runLanguages, downloadTimers>>

\* emit(event, data)
Emit(event, data) ==
    /\ events' = events
    /\ IF ~Truthy(event)
         THEN invoked' = [calls |-> <<>>, threw |-> FALSE]
         ELSE IF IsArray(event)
         THEN invoked' = [calls |-> [i \in 1 .. Len(events[event]) |->
                                        <<events[event][i], data>>],
                          threw |-> FALSE]
         \* an inherited property has no forEach: TypeError
         ELSE invoked' = [calls |-> <<>>, threw |-> TRUE]
    /\ last' = [op |-> "emit", path |-> event, notes |-> <<data>>]
    /\ UNCHANGED <<focus, files, fileInfo, btnDisabled, selectedLanguages, runState,
                   resultsShown, translationOutputs, runLanguages, downloadTimers>>

BusNext ==
    \/ \E event \in EventNames, callback \in Callbacks : On(event, callback)
    \/ \E event \in EventNames, callback \in Callbacks : Off(event, callback)
    \/ \E event \in EventNames, data \in Data : Emit(event, data)

BusSpec == Init /\ [][BusNext]_vars

----------------------------------------------------------------------------
\* BatchProcessingManager.currentBatch: set to [] by the constructor and by
\* resetBatch, and written by no other statement of the program.
currentBatch == <<>>

\* getBatchSummary()
GetBatchSummary ==
    [totalFiles     |-> Len(currentBatch),
     processedFiles |-> Cardinality({i \in 1 .. Len(currentBatch) :
                                        currentBatch[i].status = "completed"}),
     failedFiles    |-> Cardinality({i \in 1 .. Len(currentBatch) :
                                        currentBatch[i].status = "failed"}),
     totalSize      |-> TotalSize(currentBatch)]

----------------------------------------------------------------------------
\* The selections a behaviour of Spec draws from: no file, a file that passes
\* and a file that fails; batches of 0 .. MaxFiles passing files and one
\* batch holding a failing file.
GoodFile == File("audio/mpeg", 10 * MB)
BadFile == File("video/mp4", 10 * MB)
Copies(file, n) == [i \in 1 .. n |-> file]
Selections == {<<>>, <<GoodFile>>, <<BadFile>>}
Batches == {Copies(GoodFile, n) : n \in 0 .. MaxFiles} \cup {<<GoodFile, BadFile>>}

Next ==
    \/ \E m \in SingleManagers, sel \in Selections : SelectFile(m, sel)
    \/ \E sel \in Batches : SelectBatchFiles(sel)
    \/ \E lang \in Languages : ToggleLanguage(lang)
    \/ ClearSelection
    \/ \E m \in Managers : Start(m)
    \/ \E m \in Managers : Tick(m)

Spec == Init /\ [][Next]_vars

\* setInterval fires its callback again and again until it is cleared
FairSpec == Spec /\ \A m \in Managers : WF_vars(Tick(m))

----------------------------------------------------------------------------
\* FileUploadManager alone: the two change handlers over selections that
\* reach both sides of every rule of the validation.

UploadTypes == {"audio/mpeg", "audio/ogg", "video/mp4"}

UploadSizes ==
    {0, 1, 1023, K, 1029, 1030, 1152, 1536, MB - 1, MB, 10 * MB,
     BatchFileCeiling, BatchFileCeiling + 1, SingleCeiling, SingleCeiling + 1,
     120 * MB, K * MB}

UploadSelections ==
    {<<>>} \cup {<<File(t, s)>> : t \in UploadTypes, s \in UploadSizes}

BatchKinds ==
    {File(t, s) : t \in {"audio/mpeg", "video/mp4"},
                  s \in {10 * MB, BatchFileCeiling, BatchFileCeiling + 1, SingleCeiling}}

\* n copies of one kind of file, followed by at most one file of another kind
UploadBatches ==
    {Copies(a, n) \o rest : a \in BatchKinds, n \in 0 .. MaxFiles,
                            rest \in {<<>>} \cup {<<b>> : b \in BatchKinds}}

UploadNext ==
    \/ \E m \in SingleManagers, sel \in UploadSelections : SelectFile(m, sel)
    \/ \E sel \in UploadBatches : SelectBatchFiles(sel)

UploadSpec == Init /\ [][UploadNext]_vars

----------------------------------------------------------------------------
\* The download handlers: the first run of a manager over a valid selection,
\* and the clicks on the download buttons of its results.  Every behaviour of
\* DownloadSpec is a behaviour of the page.

\* the first click on a manager's start button
FirstStart(m) == ~resultsShown[m] /\ Start(m)

\* every download button the page can show
AllButtons ==
    {Button("transcription", "", f) : f \in {"txt", "docx", "srt", "vtt"}}
        \cup {Button("translation", GetLanguageData(l).name, f) :
                  l \in Languages, f \in {"mp3", "wav", "srt"}}
        \cup {Button("batch", "", f) : f \in {"zip", "report"}}

DownloadNext ==
    \/ \E m \in SingleManagers : SelectFile(m, <<GoodFile>>)
    \/ SelectBatchFiles(<<GoodFile>>)
    \/ \E lang \in Languages : ToggleLanguage(lang)
    \/ \E m \in Managers : FirstStart(m)
    \/ \E m \in Managers : Tick(m)
    \/ \E button \in AllButtons : ClickDownload(button)
    \/ DownloadTimeout

DownloadSpec == Init /\ [][DownloadNext]_vars

----------------------------------------------------------------------------
\* Properties

\* a start call of manager m is suspended at its await: the run is active
RunActive(m) == awaiting[m] > 0

\* file i of the batch run is done: the pointer has passed it, or it is the
\* current file and its progress has reached the completion threshold
FileDone(i) ==
    \/ i < currentFile
    \/ i = currentFile /\ CurrentFileDone(fileProgress)

BatchFilesOfRun == 0 .. (filesProcessed["batch"] - 1)

\* C1: single-flight.  A start call made while the manager's isProcessing is
\* true takes the rejected path: it changes nothing of the running run
\* (flag, timers, progress, captured file count), nothing of the button and
\* results, and emits no notification; so every manager has at most one
\* suspended start call and at most one live timer in every reachable state.
SingleFlight ==
    /\ [](\A m \in Managers : awaiting[m] <= 1 /\ timers[m] <= 1)
    /\ [][\A m \in Managers :
            (isProcessing[m] /\ Start(m)) =>
                /\ UNCHANGED <<runState, btnDisabled, resultsShown, files, fileInfo>>
                /\ last'.path = "rejected"
                /\ last'.notes = <<>>]_vars

\* C1 witness: the batch button, re-enabled by a file selection during a run,
\* was clicked while the run was in progress, and the call was rejected.
SingleFlightWitness ==
    /\ focus = "batch"
    /\ last.op = "start" /\ last.path = "rejected"
    /\ isProcessing["batch"] /\ timers["batch"] = 1
    /\ progress["batch"] > 0

\* C2 (as claimed): every batch run that starts eventually ends, that is,
\* isProcessing of the batch manager returns to false.
BatchRunEnds == isProcessing["batch"] ~> ~isProcessing["batch"]

\* Supporting fact for C2, C3 and C8 (holds under Spec): fileProgress is below
\* 20 on every tick, so the file pointer never leaves the first file, the
\* aggregate stays below its first file's share of 20, resolve() is never
\* called and no batch run ever ends.
BatchNeverCompletes ==
    /\ resolves["batch"] = 0
    /\ currentFile = 0
    /\ progress["batch"] < BatchStep
    /\ ~resultsShown["batch"]
    /\ (isProcessing["batch"] => timers["batch"] = 1)

\* C4: for each manager isProcessing is true exactly while a run is active:
\* true from the start of the run to its end, and false again once the run
\* has ended (the finally block), so an ended run leaves no lock behind.
ProcessingSpan ==
    \A m \in Managers :
        /\ RunActive(m) => isProcessing[m]
        /\ timers[m] > 0 => isProcessing[m]
        /\ ~RunActive(m) => ~isProcessing[m]

\* C4 witness: a translation run has just ended and the flag is false again.
ProcessingSpanWitness ==
    /\ focus = "translation"
    /\ last.op = "tick" /\ last.path = "completed"
    /\ resolves["translation"] = 1
    /\ ~isProcessing["translation"]

\* C5: for a transcription or translation job the reported progress is
\* within [0,100] and is the running total clamped to 100; it never
\* decreases within a run (it falls only when a new run starts at 0); the job
\* is completed exactly when the running total has reached or exceeded 100,
\* and then the reported value is exactly 100.
ProgressClamp ==
    /\ [](\A m \in SingleManagers :
            /\ progress[m] \in 0 .. Full
            /\ progress[m] = Min(rawProgress[m], Full)
            /\ (resolves[m] >= 1) <=> (rawProgress[m] >= Full)
            /\ (resolves[m] >= 1) => progress[m] = Full)
    /\ [][\A m \in SingleManagers :
            /\ Tick(m) => /\ rawProgress'[m] >= progress[m]
                          /\ progress'[m] >= progress[m]
                          /\ (resolves'[m] = resolves[m] + 1)
                                 <=> (rawProgress'[m] >= Full)
            /\ progress'[m] < progress[m] => last'.path = "started"]_vars

\* C5 witness: a transcription job completed on a tick whose increment
\* overshot 100; 100 is reported and the excess is gone.
ProgressClampWitness ==
    /\ focus = "transcription"
    /\ last.op = "tick" /\ last.path = "completed"
    /\ rawProgress["transcription"] > Full
    /\ progress["transcription"] = Full

\* C6: a run completes at most once: resolve() is called at most once per
\* run, and once it has been called the timer is cleared and the run is over,
\* so no further tick is applied: progress stays where it is until a new run
\* is started.
TerminalOnce ==
    /\ [](\A m \in Managers :
            /\ resolves[m] <= 1
            /\ resolves[m] = 1 => timers[m] = 0 /\ ~RunActive(m))
    /\ [][\A m \in Managers :
            (resolves[m] = 1 /\ resolves'[m] = 1) =>
                UNCHANGED <<progress, rawProgress, timers, awaiting>>]_vars

\* C6 witness: a translation job is complete and a later handler (a language
\* toggle) has run without disturbing it.
TerminalOnceWitness ==
    /\ focus = "translation"
    /\ resolves["translation"] = 1
    /\ progress["translation"] = Full
    /\ last.op = "toggle"

\* C9: in a batch run of 1 to 10 files the aggregate progress is within
\* [0,100] after every tick (progress holds the aggregate multiplied by the
\* number of files of the run).
AggregateBounds ==
    /\ filesProcessed["batch"] \in 1 .. MaxBatchFiles
    /\ progress["batch"] >= 0
    /\ progress["batch"] <= Full * filesProcessed["batch"]

\* C9 witness: a tick of a run over 10 files has produced a positive
\* aggregate.
AggregateBoundsWitness ==
    /\ focus = "batch"
    /\ Len(files["batch"]) = MaxBatchFiles
    /\ filesProcessed["batch"] = MaxBatchFiles
    /\ last.op = "tick"
    /\ progress["batch"] > 0

\* C10: in a batch run the aggregate progress is 100 only if every file of
\* the run is done; while some file is not done it is strictly below 100.
AggregateFullOnlyWhenDone ==
    /\ progress["batch"] = Full * filesProcessed["batch"]
           => \A i \in BatchFilesOfRun : FileDone(i)
    /\ (\E i \in BatchFilesOfRun : ~FileDone(i))
           => progress["batch"] < Full * filesProcessed["batch"]

\* C10 witness: a tick of a running batch of three files, files still
\* pending, aggregate below 100.
AggregateFullOnlyWhenDoneWitness ==
    /\ focus = "batch"
    /\ timers["batch"] = 1
    /\ last.op = "tick"
    /\ filesProcessed["batch"] = 3
    /\ \E i \in BatchFilesOfRun : ~FileDone(i)
    /\ progress["batch"] > 0
    /\ progress["batch"] < Full * filesProcessed["batch"]

----------------------------------------------------------------------------
\* Batch summary

\* a batch run has been started: it is in progress or it has ended
BatchRunStarted == RunActive("batch") \/ resultsShown["batch"]

----------------------------------------------------------------------------
\* Upload validation (UploadSpec)

\* the per-file ceiling the handler of manager m passes to validateFile
Ceiling(m) == IF m = "batch" THEN BatchFileCeiling ELSE SingleCeiling

\* the handler of manager m has just validated a non-empty selection
Validated(m) == focus = m /\ last.op = "select" /\ last.path # "empty"

TypeRejected(file) ==
    file.type \notin {"audio/mpeg", "audio/wav", "audio/m4a", "audio/ogg"}

\* the errors the two rules ask for, the type error before the size error
ExpectedErrors(file, m) ==
    (IF TypeRejected(file) THEN <<TypeError(AllowedTypes)>> ELSE <<>>)
        \o (IF file.size > Ceiling(m) THEN <<SizeError(Ceiling(m))>> ELSE <<>>)

\* C12: validateFile applies the type rule and the size rule independently:
\* a file that breaks both gets both errors, the type error first; the
\* result is valid exactly when its error list is empty.  The handlers show
\* exactly these errors: the single-file handler in its text and in its
\* notification, the batch handler in the file's list item.
ValidateFileBothRules ==
    \A m \in Managers :
        Validated(m) =>
            \A i \in 1 .. (IF m = "batch" THEN Len(files[m]) ELSE 1) :
                LET file     == files[m][i]
                    v        == ValidateFile(file, AllowedTypes, Ceiling(m))
                    expected == ExpectedErrors(file, m)
                IN  /\ v.errors = expected
                    /\ v.isValid <=> (Len(v.errors) = 0)
                    /\ (m # "batch" /\ Len(expected) > 0) =>
                          /\ fileInfo[m] = "Error: " \o Join(expected)
                          /\ last.notes = <<Note("error", Join(expected))>>
                    /\ (m # "batch" /\ Len(expected) = 0) =>
                          /\ fileInfo[m] = "File selected: ("
                                 \o FormatFileSize(file.size) \o ")"
                          /\ last.path = "valid"
                    /\ (m = "batch" /\ Len(expected) > 0) =>
                          fileInfo[m][i] = " - " \o Join(expected)
                    /\ (m = "batch" /\ Len(expected) = 0) =>
                          fileInfo[m][i] = "(" \o FormatFileSize(file.size) \o ")"

\* C12 witness: a video file of 120 MB was selected for transcription and
\* both errors are reported, the type error first.
ValidateFileBothRulesWitness ==
    /\ Validated("transcription")
    /\ files["transcription"] = <<File("video/mp4", 120 * MB)>>
    /\ last.notes = <<Note("error",
           TypeError(AllowedTypes) \o ", " \o SizeError(SingleCeiling))>>

\* C13: a file gets the size error exactly when its size is strictly greater
\* than the ceiling -- 100 MB for a single file, 50 MB for a file of a batch;
\* a file whose size equals the ceiling gets no size error.
SizeRuleStrict ==
    \A m \in Managers :
        Validated(m) =>
            \A i \in 1 .. (IF m = "batch" THEN Len(files[m]) ELSE 1) :
                LET file == files[m][i]
                    v    == ValidateFile(file, AllowedTypes, Ceiling(m))
                    over == file.size > (IF m = "batch" THEN 50 * 1024 * 1024
                                                        ELSE 100 * 1024 * 1024)
                IN  /\ Includes(v.errors, SizeError(Ceiling(m))) <=> over
                    /\ ~TypeRejected(file) =>
                          IF m = "batch"
                            THEN (fileInfo[m][i] = " - " \o SizeError(Ceiling(m)))
                                     <=> over
                            ELSE /\ btnDisabled[m] <=> over
                                 /\ (last.path = "invalid") <=> over
                                 /\ (fileInfo[m] = "Error: "
                                        \o SizeError(Ceiling(m))) <=> over

\* C13 witness: a batch holds a file of exactly 50 MB, which is listed with
\* its size, and a file one byte larger, which is listed with the size error.
SizeRuleStrictWitness ==
    /\ Validated("batch")
    /\ Len(files["batch"]) = 2
    /\ files["batch"][1] = File("audio/mpeg", BatchFileCeiling)
    /\ files["batch"][2] = File("audio/mpeg", BatchFileCeiling + 1)
    /\ fileInfo["batch"][1] = "(50 MB)"
    /\ fileInfo["batch"][2] = " - File too large. Maximum size: 50 MB"

\* every file of the batch selection passes validateFile
AllFilesPass ==
    \A i \in 1 .. Len(files["batch"]) :
        ~TypeRejected(files["batch"][i])
            /\ files["batch"][i].size <= BatchFileCeiling

\* C14: a batch selection of more than 10 files is invalid -- the list ends
\* with 'Maximum 10 files allowed' and the process button is disabled -- even
\* when every file passes and the total size is within its limit; a
\* selection of exactly 10 passing files is valid.
FileCountRule ==
    Validated("batch") =>
        LET n == Len(files["batch"])
        IN  /\ Includes(fileInfo["batch"], CountLine) <=> n > 10
            /\ n > 10 => /\ btnDisabled["batch"]
                         /\ last.path = "invalid"
                         /\ fileInfo["batch"][Len(fileInfo["batch"])] = CountLine
            /\ (n = 10 /\ AllFilesPass) =>
                   /\ ~btnDisabled["batch"]
                   /\ last.path = "valid"
                   /\ Len(fileInfo["batch"]) = n

\* C14 witness: 11 files of 10 MB, each of which passes, 110 MB in all: the
\* count error is the only error shown and the button is disabled.
FileCountRuleWitness ==
    /\ Validated("batch")
    /\ files["batch"] = Copies(File("audio/mpeg", 10 * MB), 11)
    /\ Len(fileInfo["batch"]) = 12
    /\ fileInfo["batch"][12] = CountLine
    /\ btnDisabled["batch"]

\* the sum of the sizes of the selected batch files
RECURSIVE SumOfSizes(_, _)
SumOfSizes(fs, n) == IF n = 0 THEN 0 ELSE fs[n].size + SumOfSizes(fs, n - 1)

\* C15: a batch selection whose total size is greater than 500 MB
\* (524,288,000 bytes) is invalid and shows the total-size error, whatever
\* the other rules say; a total of exactly 500 MB gets no total-size error.
TotalSizeRule ==
    Validated("batch") =>
        LET total == SumOfSizes(files["batch"], Len(files["batch"]))
        IN  /\ Includes(fileInfo["batch"], TotalSizeLine) <=> total > 524288000
            /\ total > 524288000 => /\ btnDisabled["batch"]
                                    /\ last.path = "invalid"
            /\ (total = 524288000 /\ AllFilesPass /\ Len(files["batch"]) <= 10) =>
                   /\ ~btnDisabled["batch"]
                   /\ last.path = "valid"

\* C15 witness: 10 files of exactly 50 MB add up to exactly 500 MB and the
\* selection is valid.
TotalSizeRuleWitness ==
    /\ Validated("batch")
    /\ files["batch"] = Copies(File("audio/mpeg", BatchFileCeiling), 10)
    /\ TotalSize(files["batch"]) = BatchTotalCeiling
    /\ ~btnDisabled["batch"]
    /\ last.path = "valid"

\* C16 (as claimed): every selection that fails validation, single or batch,
\* emits exactly one notification, of kind error.
FailingSelectionNotifiesOnce ==
    (last.op = "select" /\ last.path = "invalid") =>
        /\ Len(last.notes) = 1
        /\ last.notes[1].kind = "error"

\* C17 (as claimed): a file of 120 MB checked against the ceiling of 100 MB
\* yields exactly 'File too large. Maximum size: 100.00 MB'.
SizeErrorKeepsTwoDecimals ==
    \A m \in SingleManagers :
        (Validated(m) /\ files[m] = <<File("audio/mpeg", 120 * MB)>>) =>
            last.notes[1].message = "File too large. Maximum size: 100.00 MB"

\* formatFileSize of the sizes UploadSpec selects and shows, worked out by
\* hand from bytes / 1024^i rounded to two decimals
RenderedSize(bytes) ==
    CASE bytes = 0         -> "0 Bytes"
      [] bytes = 1         -> "1 Bytes"
      [] bytes = 1023      -> "1023 Bytes"
      [] bytes = 1024      -> "1 KB"
      [] bytes = 1029      -> "1 KB"
      [] bytes = 1030      -> "1.01 KB"
      [] bytes = 1152      -> "1.13 KB"
      [] bytes = 1536      -> "1.5 KB"
      [] bytes = 1048575   -> "1024 KB"
      [] bytes = 1048576   -> "1 MB"
      [] bytes = 10485760  -> "10 MB"
      [] bytes = 52428800  -> "50 MB"
      [] bytes = 52428801  -> "50 MB"
      [] bytes = 104857600 -> "100 MB"

\* C17 (amended): the size error renders the ceiling in base-1024 units from
\* {Bytes, KB, MB, GB}, rounded to two decimals and written without trailing
\* zeros, and a size of 0 is rendered '0 Bytes': 120 MB against the ceiling
\* of 100 MB yields exactly 'File too large. Maximum size: 100 MB', a file of
\* a batch over 50 MB 'File too large. Maximum size: 50 MB', and the size of
\* an accepted file is rendered the same way.
SizeErrorRendering ==
    \A m \in SingleManagers :
        (Validated(m) /\ ~TypeRejected(files[m][1])) =>
            IF files[m][1].size > SingleCeiling
              THEN /\ last.notes[1].message = "File too large. Maximum size: 100 MB"
                   /\ fileInfo[m] = "Error: File too large. Maximum size: 100 MB"
              ELSE fileInfo[m] = "File selected: ("
                                    \o RenderedSize(files[m][1].size) \o ")"

\* C17 witness: an audio file of 120 MB was selected for translation and the
\* notification names the ceiling as 100 MB.
SizeErrorRenderingWitness ==
    /\ Validated("translation")
    /\ files["translation"] = <<File("audio/mpeg", 120 * MB)>>
    /\ last.notes = <<Note("error", "File too large. Maximum size: 100 MB")>>

----------------------------------------------------------------------------
\* Language selection and results

\* C18: a toggle has XOR-membership semantics: the toggled code is in the
\* selection afterwards exactly when it was not in it before, the membership
\* of every other code is unchanged, the selection grows or shrinks by
\* exactly one code (it never holds a code twice), and toggling the same code
\* again restores the selection.
ToggleXor ==
    [][\A lang \in Languages :
          ToggleLanguage(lang) =>
              /\ (lang \in selectedLanguages') <=> (lang \notin selectedLanguages)
              /\ \A other \in Languages \ {lang} :
                     (other \in selectedLanguages') <=> (other \in selectedLanguages)
              /\ Cardinality(selectedLanguages') =
                     IF lang \in selectedLanguages
                       THEN Cardinality(selectedLanguages) - 1
                       ELSE Cardinality(selectedLanguages) + 1
              /\ Toggle(selectedLanguages', lang) = selectedLanguages]_vars

\* C18 witness: German was toggled while both languages were selected; it is
\* gone and French is still selected.
ToggleXorWitness ==
    /\ focus = "translation"
    /\ last.op = "toggle" /\ last.path = "de"
    /\ selectedLanguages = {"fr"}

\* C19: immediately after every language toggle and after clearSelection the
\* translate button is disabled exactly when the selection is empty.
ButtonFollowsSelection ==
    [][((\E lang \in Languages : ToggleLanguage(lang)) \/ ClearSelection) =>
          (btnDisabled'["translation"] <=> (selectedLanguages' = {}))]_vars

\* C19 witness: with a file selected, which had enabled the button, the last
\* selected language was toggled off and the button is disabled again.
ButtonFollowsSelectionWitness ==
    /\ focus = "translation"
    /\ last.op = "toggle"
    /\ Len(files["translation"]) = 1
    /\ selectedLanguages = {}
    /\ btnDisabled["translation"]

Formats == {"mp3", "wav", "srt"}
LanguageName == [de |-> "german", fr |-> "french"]

\* C20: when a translation run completes with N languages selected, its
\* results offer exactly N x 3 download buttons, one for every pair of a
\* selected language and a format of {mp3, wav, srt} and none twice; the
\* results of a completed transcription run offer exactly the four formats
\* {txt, docx, srt, vtt}, once each.  N counts the languages selected at the
\* moment the run completes, which is when the results are built.
ArtifactCount ==
    /\ (focus = "translation" /\ last.op = "tick" /\ last.path = "completed") =>
          LET n == Cardinality(selectedLanguages)
          IN  /\ BagCardinality(translationOutputs) = n * 3
              /\ Cardinality(BagToSet(translationOutputs)) = n * 3
              /\ \A a \in BagToSet(translationOutputs) :
                     /\ CopiesIn(a, translationOutputs) = 1
                     /\ a[2] \in Formats
              /\ \A lang \in selectedLanguages, format \in Formats :
                     <<LanguageName[lang], format>> \in BagToSet(translationOutputs)
    /\ resultsShown["transcription"] =>
          /\ BagToSet(TranscriptionDownloads) = {"txt", "docx", "srt", "vtt"}
          /\ BagCardinality(TranscriptionDownloads) = 4

\* C20 witness: a translation run completed with German and French selected
\* and six download buttons are offered.
ArtifactCountWitness ==
    /\ focus = "translation"
    /\ last.op = "tick" /\ last.path = "completed"
    /\ selectedLanguages = {"de", "fr"}
    /\ BagCardinality(translationOutputs) = 6

----------------------------------------------------------------------------
\* Runs, results and the batch pointer

\* C21: the results of a run are built only when that run's progress has
\* reached 100: every step that fills a results container or rebuilds the
\* translation outputs is the tick on which the running total reached 100,
\* resolve() was called and the timer was cleared; no step of a run still in
\* progress builds results.  (The program has no failing run.)
ResultsOnlyWhenComplete ==
    [][\A m \in Managers :
          (resultsShown'[m] # resultsShown[m]
              \/ (m = "translation" /\ translationOutputs' # translationOutputs)) =>
              /\ rawProgress'[m] >= Full * filesProcessed[m]
              /\ progress'[m] = Full * filesProcessed[m]
              /\ resolves[m] = 0 /\ resolves'[m] = 1
              /\ timers'[m] = 0]_vars

\* C21 witness: a transcription run reached exactly 100 and its results are
\* shown.
ResultsOnlyWhenCompleteWitness ==
    /\ focus = "transcription"
    /\ resultsShown["transcription"]
    /\ last.op = "tick" /\ last.path = "completed"
    /\ rawProgress["transcription"] = Full

AggregateFormula ==
    [][(focus = "batch" /\ last'.op = "tick") =>
          /\ rawProgress'["batch"] = (currentFile * 100) + fileProgress'
          /\ rawProgress'["batch"] < 100 * filesProcessed["batch"] =>
                 progress'["batch"] = rawProgress'["batch"]]_vars

\* C23 witness: a tick of a run over three files drew 12 for the first file:
\* the aggregate is 12 / 3 = 4 percent.
AggregateFormulaWitness ==
    /\ focus = "batch"
    /\ filesProcessed["batch"] = 3
    /\ last.op = "tick"
    /\ fileProgress = 12
    /\ progress["batch"] = 12

\* C24 (as claimed): within a batch run, while the pointer stays on a file,
\* the progress of that file does not decrease from one tick to the next,
\* and so the aggregate progress does not decrease either.
BatchProgressMonotone ==
    [][(focus = "batch" /\ last.op = "tick" /\ last'.op = "tick"
            /\ currentFile' = currentFile) =>
          /\ fileProgress' >= fileProgress
          /\ progress'["batch"] >= progress["batch"]]_vars

----------------------------------------------------------------------------
\* Start preconditions and buttons

\* a start call of manager m that passes the single-flight guard and fails a
\* precondition: no file, or (translation) no language
FailsPrecondition(m) ==
    /\ ~isProcessing[m]
    /\ \/ Len(files[m]) = 0
       \/ m = "translation" /\ selectedLanguages = {}

\* a start call that fails a precondition emits exactly one error
\* notification and changes nothing else
FailedStartChangesNothing ==
    [][\A m \in Managers :
          (Start(m) /\ FailsPrecondition(m)) =>
              /\ Len(last'.notes) = 1
              /\ last'.notes[1].kind = "error"
              /\ UNCHANGED <<runState, btnDisabled, files, fileInfo,
                             selectedLanguages, resultsShown, translationOutputs>>
              /\ ~isProcessing'[m] /\ timers'[m] = 0]_vars

\* C25 (as claimed): a start call that fails a precondition changes nothing
\* but one error notification; no run is ever active without a file, and no
\* translation run is started with an empty language selection.
StartPreconditions ==
    /\ FailedStartChangesNothing
    /\ [](\A m \in Managers : RunActive(m) => Len(files[m]) > 0)
    /\ [][(focus = "translation" /\ last'.op = "start" /\ last'.path = "started") =>
              selectedLanguages # {}]_vars

\* C25 (amended): a start call that fails a precondition changes nothing but
\* one error notification; no run is ever started without a file, and no
\* translation run is started with an empty language selection.  (The file
\* input can be emptied while the run is active.)
StartPreconditionsAtStart ==
    /\ FailedStartChangesNothing
    /\ [][\A m \in Managers :
            (focus = m /\ last'.op = "start" /\ last'.path = "started") =>
                /\ Len(files[m]) > 0
                /\ m = "translation" => selectedLanguages # {}]_vars

\* C25 witness: the translate button, enabled by a file selection, was
\* clicked with no language selected: one error, no run.
StartPreconditionsAtStartWitness ==
    /\ focus = "translation"
    /\ last.op = "start" /\ last.path = "nolanguage"
    /\ Len(last.notes) = 1
    /\ ~isProcessing["translation"] /\ timers["translation"] = 0

\* C26 (as claimed): the outputs built when a translation run completes are
\* exactly one per language that was selected when the run started, whatever
\* toggles were made during the run.
OutputsOfStartLanguages ==
    [][(focus = "translation" /\ last'.op = "tick" /\ last'.path = "completed") =>
          BagToSet(translationOutputs') =
              {<<LanguageName[lang], format>> : lang \in runLanguages,
                                                format \in Formats}]_vars

\* C27 (as claimed): the transcribe button is enabled only if the currently
\* selected file passed validateFile.
TranscribeOnlyValidated ==
    (~btnDisabled["transcription"] /\ Len(files["transcription"]) > 0) =>
        /\ ~TypeRejected(files["transcription"][1])
        /\ files["transcription"][1].size <= SingleCeiling

\* C28 (as claimed): the translate button is enabled only if the language
\* selection is non-empty.
TranslateOnlyWithLanguage ==
    ~btnDisabled["translation"] => selectedLanguages # {}

----------------------------------------------------------------------------
\* Downloads

\* C29 (as claimed): one click on a download button is handled by exactly
\* one manager and produces exactly one announcement, that of the results
\* area the button is in.
OneClickOneManager ==
    last.op = "download" =>
        /\ Len(last.notes) = 1
        /\ last.path = "translation" =>
               \E lang \in {"german", "french"}, format \in Formats :
                   last.notes[1].message =
                       "Downloading translation_" \o lang \o "." \o format \o "..."

----------------------------------------------------------------------------
\* Event bus (BusSpec)

\* the callbacks registered for an event, in registration order
Registered(event) == IF event \in DOMAIN events THEN events[event] ELSE <<>>

\* The contract of the bus for the event names of the set names, in five
\* parts.  emit returns normally.
NoThrow(names) ==
    (last.op = "emit" /\ last.path \in names) => ~invoked.threw

\* emit invokes exactly the callbacks registered for its event, once per
\* registration and in registration order, each with the data given
EmitExact(names) ==
    (last.op = "emit" /\ last.path \in names) =>
        invoked.calls = [i \in 1 .. Len(Registered(last.path)) |->
                            <<Registered(last.path)[i], last.notes[1]>>]

\* emit changes no registration, and with no registration it does nothing
EmitKeeps(names) ==
    \A event \in names, data \in Data :
        Emit(event, data) =>
            /\ \A e \in EventNames : Registered(e)' = Registered(e)
            /\ Registered(event) = <<>> => invoked'.calls = <<>>

\* off removes every registration of its callback for its event, keeps the
\* others in order and touches no other event
OffRemoves(names) ==
    \A event \in names, callback \in Callbacks :
        Off(event, callback) =>
            /\ Registered(event)' =
                   SelectSeq(Registered(event), LAMBDA c : c # callback)
            /\ \A e \in EventNames \ {event} : Registered(e)' = Registered(e)
            /\ invoked'.calls = <<>>

\* on appends one registration and touches no other event
OnAppends(names) ==
    \A event \in names, callback \in Callbacks :
        On(event, callback) =>
            /\ Registered(event)' = Append(Registered(event), callback)
            /\ \A e \in EventNames \ {event} : Registered(e)' = Registered(e)
            /\ invoked'.calls = <<>>

====
